---- MODULE Spec2Model ----
(***************************************************************************)
(* State-machine model of project3-collaboration-competition/maddpg.py:    *)
(* the MADDPG coordinator and its shared ReplayBuffer.                      *)
(*                                                                         *)
(* Every public method is one atomic action (the program is synchronous    *)
(* and single threaded).  The calls a method makes on its collaborators    *)
(* (Agent, the buffer, the random module) are recorded, in order, in       *)
(* `trace`, which is reset at the start of every method call.              *)
(***************************************************************************)
EXTENDS Integers, Sequences, FiniteSets, TLC

\* ---- bounds of the model ------------------------------------------------
MaxAgents == 2
MaxBuffer == 3
MaxBatch == 2
MaxThreshold == 2
MaxAdds == 4
MaxSeed == 1
\* number of states of the abstract pseudo-random generator
RngMod == 3

VARIABLES
  num_agents,               \* MADDPG.num_agents
  batch_size,               \* MADDPG.batch_size = ReplayBuffer.batch_size
  gamma,                    \* MADDPG.gamma (in hundredths)
  minsamples_before_train,  \* MADDPG.minsamples_before_train
  agents,                   \* MADDPG.agents, the list of Agent instances
  buffer_size,              \* maxlen of ReplayBuffer.replay_memory
  replay_memory,            \* ReplayBuffer.replay_memory, oldest first
  rng,                      \* state of the generator of the `random` module
  added,                    \* number of ReplayBuffer.add calls so far
  files,                    \* names of the parameter files written so far
  lastOp,                   \* the method called last
  args,                     \* its arguments
  err,                      \* the exception it raised, "none" if it returned
  ret,                      \* its return value
  trace                     \* the calls it made, in order

vars == <<num_agents, batch_size, gamma, minsamples_before_train, agents,
          buffer_size, replay_memory, rng, added, files,
          lastOp, args, err, ret, trace>>

config == <<num_agents, batch_size, gamma, minsamples_before_train, agents,
            buffer_size>>

\* ---- values ---------------------------------------------------------------
Min(a, b) == IF a < b THEN a ELSE b

\* The value the environment supplies for field f of the m-th transition:
\* a distinguishing marker.  The done flag is a boolean.
Obs(f, m) == IF f = "done" THEN (m % 2 = 0) ELSE <<f, m>>

\* A per-agent input list of length len whose i-th entry belongs to marker
\* base + i.
ObsList(f, base, len) == [i \in 1..len |-> Obs(f, base + i)]

\* namedtuple("Experience", ["state","action","reward","next_state","done"])
experience(state, action, reward, next_state, done) ==
  [state |-> state, action |-> action, reward |-> reward,
   next_state |-> next_state, done |-> done]

None == <<>>

\* ---- the random module ----------------------------------------------------
\* random.seed(seed): the generator state is a function of the seed.
random_seed(seed) == seed % RngMod

\* One draw advances the generator.
RngNext(s) == (s + 1) % RngMod

\* Random._randbelow(n): a value in 0..n-1 that is a function of the state.
randbelow(s, n) == s % n

\* sample_pool drawing with replacement: a selected entry stays in the pool.
RECURSIVE sample_pool_replace(_, _, _, _)
sample_pool_replace(pool, n, k, s) ==
  IF k = 0 THEN [result |-> <<>>, rng |-> s]
  ELSE LET j    == randbelow(s, n) + 1
           rest == sample_pool_replace(pool, n, k - 1, RngNext(s))
       IN  [result |-> <<pool[j]>> \o rest.result, rng |-> rest.rng]

\* The selection loop of random.sample for small populations: k draws, each
\* from the not yet selected part of the pool.
RECURSIVE sample_pool(_, _, _, _)
sample_pool(pool, n, k, s) ==
  IF k = 0 THEN [result |-> <<>>, rng |-> s]
  ELSE LET j    == randbelow(s, n) + 1
           rest == sample_pool([pool EXCEPT ![j] = pool[n]], n - 1, k - 1,
                               RngNext(s))
       IN  [result |-> <<pool[j]>> \o rest.result, rng |-> rest.rng]

\* random.sample(population, k) on generator state s.
random_sample(population, k, s) ==
  IF ~(0 <= k /\ k <= Len(population))
  THEN [err |-> "ValueError", result |-> <<>>, rng |-> s]
  ELSE LET r == sample_pool(population, Len(population), k, s)
       IN  [err |-> "none", result |-> r.result, rng |-> r.rng]

\* ---- ReplayBuffer ---------------------------------------------------------
\* deque_append on a deque without maxlen: nothing is ever evicted.
deque_append_unbounded(q, x, maxlen) == q \o <<x>>

\* deque_append evicting at the wrong end: the newest entry is dropped.
deque_append_dropnewest(q, x, maxlen) ==
  IF maxlen = 0 THEN q
  ELSE IF Len(q) = maxlen THEN SubSeq(q, 1, maxlen - 1) \o <<x>>
  ELSE q \o <<x>>

\* deque_append that empties a full deque before appending.
deque_append_restart(q, x, maxlen) ==
  IF maxlen = 0 THEN q
  ELSE IF Len(q) = maxlen THEN <<x>>
  ELSE q \o <<x>>

\* deque(maxlen=buffer_size).append(x)
deque_append(q, x, maxlen) ==
  IF maxlen = 0 THEN q
  ELSE IF Len(q) = maxlen THEN Tail(q) \o <<x>>
  ELSE q \o <<x>>

\* ReplayBuffer.add
add(memory, maxlen, state, action, reward, next_state, done) ==
  deque_append(memory, experience(state, action, reward, next_state, done),
               maxlen)

\* astype(np.uint8) followed by float(): True is 1, False is 0.
DoneToFloat(d) == IF d THEN 1 ELSE 0

\* The five columns built from the selected experiences.
ToBatch(experiences) ==
  [states      |-> [j \in 1..Len(experiences) |-> experiences[j].state],
   actions     |-> [j \in 1..Len(experiences) |-> experiences[j].action],
   rewards     |-> [j \in 1..Len(experiences) |-> experiences[j].reward],
   next_states |-> [j \in 1..Len(experiences) |-> experiences[j].next_state],
   dones       |-> [j \in 1..Len(experiences) |->
                      DoneToFloat(experiences[j].done)]]

\* sample that shrinks the batch to what the buffer holds.
sample_short(memory, k, s) ==
  LET r == random_sample(memory, Min(k, Len(memory)), s)
  IN  IF r.err # "none"
      THEN [err |-> r.err, batch |-> None, rng |-> r.rng]
      ELSE [err |-> "none", batch |-> ToBatch(r.result), rng |-> r.rng]

\* ReplayBuffer.sample on generator state s.  np.vstack raises ValueError on
\* an empty list of rows.
sample(memory, k, s) ==
  LET r == random_sample(memory, k, s)
  IN  IF r.err # "none"
      THEN [err |-> r.err, batch |-> None, rng |-> r.rng]
      ELSE IF Len(r.result) = 0
      THEN [err |-> "ValueError", batch |-> None, rng |-> r.rng]
      ELSE [err |-> "none", batch |-> ToBatch(r.result), rng |-> r.rng]

\* ReplayBuffer.__len__
len(memory) == Len(memory)

\* ---- construction ---------------------------------------------------------
\* MADDPG.__init__ and ReplayBuffer.__init__
Init ==
  /\ num_agents \in 1..MaxAgents
  /\ batch_size \in 0..MaxBatch
  /\ gamma = 95
  /\ minsamples_before_train \in 0..MaxThreshold
  /\ agents = [i \in 1..num_agents |-> i]
  /\ buffer_size \in 0..MaxBuffer
  /\ replay_memory = <<>>
  /\ \E seed \in 0..MaxSeed : rng = random_seed(seed)
  /\ added = 0
  /\ files = {}
  /\ lastOp = "init"
  /\ args = None
  /\ err = "none"
  /\ ret = None
  /\ trace = <<>>

\* ---- direct calls on the buffer --------------------------------------------
\* memory.add(state, action, reward, next_state, done), called directly
Add ==
  /\ added < MaxAdds
  /\ LET m == added + 1
     IN  /\ replay_memory' = add(replay_memory, buffer_size, Obs("state", m),
                                 Obs("action", m), Obs("reward", m),
                                 Obs("next_state", m), Obs("done", m))
         /\ args' = <<m>>
  /\ added' = added + 1
  /\ lastOp' = "add"
  /\ err' = "none"
  /\ ret' = None
  /\ trace' = <<>>
  /\ UNCHANGED <<config, rng, files>>

\* memory.sample(), called directly
Sample ==
  LET r == sample(replay_memory, batch_size, rng)
  IN  /\ lastOp' = "sample"
      /\ args' = None
      /\ err' = r.err
      /\ ret' = r.batch
      /\ rng' = r.rng
      /\ trace' = <<[op |-> "sample", err |-> r.err, batch |-> r.batch]>>
      /\ UNCHANGED <<config, replay_memory, added, files>>

\* ---- the Agent collaborator (ddpg.Agent) ------------------------------------
\* Agent.act(state, add_noise): the action agent a returns
agent_act(a, state, add_noise) ==
  [agent |-> a, state |-> state, add_noise |-> add_noise]

\* ---- MADDPG ----------------------------------------------------------------
\* zip(xs, ys): pairs up to the shorter of the two
zip(xs, ys) == [i \in 1..Min(Len(xs), Len(ys)) |-> <<xs[i], ys[i]>>]

\* act handing the first state to every agent.
act_first_state(ags, states, add_noise) ==
  LET pairs == zip(states, ags)
  IN  [ret   |-> [i \in 1..Len(pairs) |->
                    agent_act(pairs[i][2], pairs[1][1], add_noise)],
       trace |-> [i \in 1..Len(pairs) |->
                    [op |-> "agent.act", agent |-> pairs[i][2],
                     state |-> pairs[1][1], add_noise |-> add_noise,
                     action |-> agent_act(pairs[i][2], pairs[1][1],
                                          add_noise)]]]

\* MADDPG.act: the returned list and the calls made
act(ags, states, add_noise) ==
  LET pairs == zip(states, ags)
  IN  [ret   |-> [i \in 1..Len(pairs) |->
                    agent_act(pairs[i][2], pairs[i][1], add_noise)],
       trace |-> [i \in 1..Len(pairs) |->
                    [op |-> "agent.act", agent |-> pairs[i][2],
                     state |-> pairs[i][1], add_noise |-> add_noise,
                     action |-> agent_act(pairs[i][2], pairs[i][1],
                                          add_noise)]]]

\* reset reaching the first agent only.
reset_first_only(ags) ==
  [i \in 1..Min(1, Len(ags)) |-> [op |-> "agent.reset", agent |-> ags[i]]]

\* MADDPG.reset: the calls made
reset(ags) == [i \in 1..Len(ags) |-> [op |-> "agent.reset", agent |-> ags[i]]]

\* MADDPG.learn: agent.learn(experiences, gamma) for every agent in turn; the
\* fail-th of these calls raises (none if fail = 0), which ends the loop.
RECURSIVE learn_from(_, _, _, _, _)
learn_from(idx, ags, experiences, g, fail) ==
  IF idx > Len(ags) THEN [trace |-> <<>>, err |-> "none"]
  ELSE LET ev == [op |-> "agent.learn", agent |-> ags[idx],
                  experiences |-> experiences, gamma |-> g,
                  err |-> IF idx = fail THEN "AgentError" ELSE "none"]
       IN  IF idx = fail THEN [trace |-> <<ev>>, err |-> "AgentError"]
           ELSE LET rest == learn_from(idx + 1, ags, experiences, g, fail)
                IN  [trace |-> <<ev>> \o rest.trace, err |-> rest.err]

\* learn handing every agent its default gamma of 0.99 instead of the argument.
learn_default_gamma(ags, experiences, g, fail) ==
  learn_from(1, ags, experiences, 99, fail)

\* learn updating the first agent only.
learn_first_only(ags, experiences, g, fail) ==
  learn_from(1, SubSeq(ags, 1, 1), experiences, g, fail)

learn(ags, experiences, g, fail) == learn_from(1, ags, experiences, g, fail)

\* MADDPG.step, first loop: memory.add for i in range(num_agents).  Indexing
\* an input list at or beyond its length raises IndexError.
RECURSIVE step_adds(_, _, _, _, _)
step_adds(i, k, memory, maxlen, in) ==
  IF i > k THEN [memory |-> memory, trace |-> <<>>, err |-> "none"]
  ELSE IF \E f \in DOMAIN in : i > Len(in[f])
  THEN [memory |-> memory, trace |-> <<>>, err |-> "IndexError"]
  ELSE LET rest == step_adds(i + 1, k,
                             add(memory, maxlen, in.states[i], in.actions[i],
                                 in.rewards[i], in.next_states[i],
                                 in.dones[i]),
                             maxlen, in)
       IN  [memory |-> rest.memory,
            trace  |-> <<[op |-> "add",
                          experience |->
                            experience(in.states[i], in.actions[i],
                                       in.rewards[i], in.next_states[i],
                                       in.dones[i])]>> \o rest.trace,
            err    |-> rest.err]

\* step_learn performing a single learning iteration whatever num_agents is.
step_learn_once(it, k, memory, bs, s, ags, g, failAt) ==
  LET r  == sample(memory, bs, s)
      ev == [op |-> "sample", err |-> r.err, batch |-> r.batch]
  IN  IF r.err # "none"
      THEN [rng |-> r.rng, trace |-> <<ev>>, err |-> r.err]
      ELSE
        LET fail == IF failAt <= Len(ags) THEN failAt ELSE 0
            l    == learn(ags, r.batch, g, fail)
            lev  == [op |-> "learn", experiences |-> r.batch, gamma |-> g]
        IN  [rng |-> r.rng, trace |-> <<ev, lev>> \o l.trace, err |-> l.err]

\* step_learn whose sample takes the drawn transitions out of the buffer: the
\* next iteration sees bs entries fewer.
RECURSIVE step_learn_consume(_, _, _, _, _, _, _, _)
step_learn_consume(it, k, memory, bs, s, ags, g, failAt) ==
  IF it > k THEN [rng |-> s, trace |-> <<>>, err |-> "none"]
  ELSE
    LET r  == sample(memory, bs, s)
        ev == [op |-> "sample", err |-> r.err, batch |-> r.batch]
    IN  IF r.err # "none"
        THEN [rng |-> r.rng, trace |-> <<ev>>, err |-> r.err]
        ELSE
          LET done == (it - 1) * Len(ags)
              fail == IF failAt > done /\ failAt <= done + Len(ags)
                      THEN failAt - done ELSE 0
              l    == learn(ags, r.batch, g, fail)
              lev  == [op |-> "learn", experiences |-> r.batch, gamma |-> g]
          IN  IF l.err # "none"
              THEN [rng |-> r.rng, trace |-> <<ev, lev>> \o l.trace,
                    err |-> l.err]
              ELSE LET rest == step_learn_consume(
                                 it + 1, k, SubSeq(memory, bs + 1, Len(memory)),
                                 bs, r.rng, ags, g, failAt)
                   IN  [rng   |-> rest.rng,
                        trace |-> <<ev, lev>> \o l.trace \o rest.trace,
                        err   |-> rest.err]

\* MADDPG.step, second loop: for _ in range(num_agents): sample, then learn.
\* failAt numbers the agent.learn calls of the whole step; that call raises.
RECURSIVE step_learn(_, _, _, _, _, _, _, _)
step_learn(it, k, memory, bs, s, ags, g, failAt) ==
  IF it > k THEN [rng |-> s, trace |-> <<>>, err |-> "none"]
  ELSE
    LET r  == sample(memory, bs, s)
        ev == [op |-> "sample", err |-> r.err, batch |-> r.batch]
    IN  IF r.err # "none"
        THEN [rng |-> r.rng, trace |-> <<ev>>, err |-> r.err]
        ELSE
          LET done == (it - 1) * Len(ags)
              fail == IF failAt > done /\ failAt <= done + Len(ags)
                      THEN failAt - done ELSE 0
              l    == learn(ags, r.batch, g, fail)
              lev  == [op |-> "learn", experiences |-> r.batch, gamma |-> g]
          IN  IF l.err # "none"
              THEN [rng |-> r.rng, trace |-> <<ev, lev>> \o l.trace,
                    err |-> l.err]
              ELSE LET rest == step_learn(it + 1, k, memory, bs, r.rng, ags,
                                          g, failAt)
                   IN  [rng   |-> rest.rng,
                        trace |-> <<ev, lev>> \o l.trace \o rest.trace,
                        err   |-> rest.err]

\* step whose threshold test is >= instead of >.
step_ge(k, memory, maxlen, bs, threshold, s, ags, g, in, failAt) ==
  LET a == step_adds(1, k, memory, maxlen, in)
  IN  IF a.err # "none"
      THEN [memory |-> a.memory, rng |-> s, trace |-> a.trace, err |-> a.err]
      ELSE IF len(a.memory) >= threshold
      THEN LET l == step_learn(1, k, a.memory, bs, s, ags, g, failAt)
           IN  [memory |-> a.memory, rng |-> l.rng,
                trace |-> a.trace \o l.trace, err |-> l.err]
      ELSE [memory |-> a.memory, rng |-> s, trace |-> a.trace,
            err |-> "none"]

\* step that restores the buffer when it fails.
step_rollback(k, memory, maxlen, bs, threshold, s, ags, g, in, failAt) ==
  LET a == step_adds(1, k, memory, maxlen, in)
  IN  IF a.err # "none"
      THEN [memory |-> memory, rng |-> s, trace |-> a.trace, err |-> a.err]
      ELSE IF len(a.memory) > threshold
      THEN LET l == step_learn(1, k, a.memory, bs, s, ags, g, failAt)
           IN  [memory |-> IF l.err = "none" THEN a.memory ELSE memory,
                rng |-> l.rng, trace |-> a.trace \o l.trace, err |-> l.err]
      ELSE [memory |-> a.memory, rng |-> s, trace |-> a.trace,
            err |-> "none"]

\* step that tests the threshold before it inserts.
step_check_first(k, memory, maxlen, bs, threshold, s, ags, g, in, failAt) ==
  LET a == step_adds(1, k, memory, maxlen, in)
  IN  IF a.err # "none"
      THEN [memory |-> a.memory, rng |-> s, trace |-> a.trace, err |-> a.err]
      ELSE IF len(memory) > threshold
      THEN LET l == step_learn(1, k, a.memory, bs, s, ags, g, failAt)
           IN  [memory |-> a.memory, rng |-> l.rng,
                trace |-> a.trace \o l.trace, err |-> l.err]
      ELSE [memory |-> a.memory, rng |-> s, trace |-> a.trace,
            err |-> "none"]

\* MADDPG.step
step(k, memory, maxlen, bs, threshold, s, ags, g, in, failAt) ==
  LET a == step_adds(1, k, memory, maxlen, in)
  IN  IF a.err # "none"
      THEN [memory |-> a.memory, rng |-> s, trace |-> a.trace, err |-> a.err]
      ELSE IF len(a.memory) > threshold
      THEN LET l == step_learn(1, k, a.memory, bs, s, ags, g, failAt)
           IN  [memory |-> a.memory, rng |-> l.rng,
                trace |-> a.trace \o l.trace, err |-> l.err]
      ELSE [memory |-> a.memory, rng |-> s, trace |-> a.trace,
            err |-> "none"]

\* MADDPG.saveModelParams: for i, agent in enumerate(self.agents), torch.save
\* of the actor to actor_agent_{i}.pth, then of the critic to
\* critic_agent_{i}.pth.  j numbers the writes; the failAt-th write raises
\* (none if failAt = 0), which ends the loop.
RECURSIVE save_from(_, _, _)
save_from(j, ags, failAt) ==
  IF j > 2 * Len(ags) THEN [trace |-> <<>>, err |-> "none"]
  ELSE LET i    == (j - 1) \div 2
           role == IF j % 2 = 1 THEN "actor" ELSE "critic"
           ev   == [op |-> "torch.save",
                    obj |-> <<role \o "_local", ags[i + 1]>>,
                    file |-> <<role \o "_agent", i>>,
                    err |-> IF j = failAt THEN "OSError" ELSE "none"]
       IN  IF j = failAt THEN [trace |-> <<ev>>, err |-> "OSError"]
           ELSE LET rest == save_from(j + 1, ags, failAt)
                IN  [trace |-> <<ev>> \o rest.trace, err |-> rest.err]

\* saveModelParams swallowing a failed write and going on with the next file.
saveModelParams_skip_failed(ags, failAt) ==
  LET r == save_from(1, ags, failAt)
  IN  IF r.err = "none" THEN r
      ELSE [trace |-> r.trace \o save_from(failAt + 1, ags, 0).trace,
            err |-> "none"]

saveModelParams(ags, failAt) == save_from(1, ags, failAt)

\* The files the torch.save calls of a trace wrote.
Written(tr) ==
  {tr[j].file : j \in {n \in 1..Len(tr) :
                         tr[n].op = "torch.save" /\ tr[n].err = "none"}}

\* ---- what a trace holds -----------------------------------------------------
IsOp(e, name) == e.op = name
Calls(tr, name) == SelectSeq(tr, LAMBDA e : IsOp(e, name))
Samples(tr) == Calls(tr, "sample")
GoodSamples(tr) == SelectSeq(tr, LAMBDA e : e.op = "sample" /\ e.err = "none")
Batches(tr) == [j \in 1..Len(GoodSamples(tr)) |-> GoodSamples(tr)[j].batch]

\* ---- calls on the coordinator ----------------------------------------------
StepFields == {"states", "actions", "rewards", "next_states", "dones"}

\* The five input lists of a step call: list `which` has length n, the others
\* have length num_agents.
StepInputs(which, n) ==
  LET l(f) == IF f = which THEN n ELSE num_agents
  IN  [states      |-> ObsList("state", added, l("states")),
       actions     |-> ObsList("action", added, l("actions")),
       rewards     |-> ObsList("reward", added, l("rewards")),
       next_states |-> ObsList("next_state", added, l("next_states")),
       dones       |-> ObsList("done", added, l("dones"))]

\* The lists a step call may be given with a deviating length: the first and
\* the last of the five.
MismatchFields == {"states", "dones"}

Lengths == {n \in (num_agents - 1)..(num_agents + 1) : n >= 0}

\* coordinator.act(states, add_noise)
Act ==
  \E n \in Lengths, add_noise \in BOOLEAN :
    LET states == ObsList("state", 0, n)
        r      == act(agents, states, add_noise)
    IN  /\ lastOp' = "act"
        /\ args' = [states |-> states, add_noise |-> add_noise]
        /\ err' = "none"
        /\ ret' = r.ret
        /\ trace' = r.trace
        /\ UNCHANGED <<config, replay_memory, rng, added, files>>

\* coordinator.reset()
Reset ==
  /\ lastOp' = "reset"
  /\ args' = None
  /\ err' = "none"
  /\ ret' = None
  /\ trace' = reset(agents)
  /\ UNCHANGED <<config, replay_memory, rng, added, files>>

\* coordinator.step(states, actions, rewards, next_states, dones)
Step ==
  \E which \in MismatchFields, n \in Lengths,
     failAt \in 0..(num_agents * num_agents) :
    /\ n = num_agents => which = "states"
    /\ failAt > 0 => n = num_agents
    /\ added + num_agents <= MaxAdds
    /\ LET in == StepInputs(which, n)
           r  == step(num_agents, replay_memory, buffer_size, batch_size,
                      minsamples_before_train, rng, agents, gamma, in, failAt)
       IN  /\ failAt > 0 => r.err = "AgentError"
           /\ lastOp' = "step"
           /\ args' = [in |-> in, failAt |-> failAt]
           /\ err' = r.err
           /\ ret' = None
           /\ trace' = r.trace
           /\ replay_memory' = r.memory
           /\ rng' = r.rng
           /\ added' = added + Len(Calls(r.trace, "add"))
    /\ UNCHANGED <<config, files>>

\* The batch a direct caller of learn passes in.
DirectBatch == ToBatch(<<experience(Obs("state", 1), Obs("action", 1),
                                    Obs("reward", 1), Obs("next_state", 1),
                                    Obs("done", 1))>>)

\* coordinator.learn(experiences, gamma), called directly (gamma defaults to
\* 0.99)
Learn ==
  \E g \in {50, 99}, fail \in 0..num_agents :
    LET r == learn(agents, DirectBatch, g, fail)
    IN  /\ lastOp' = "learn"
        /\ args' = [experiences |-> DirectBatch, gamma |-> g]
        /\ err' = r.err
        /\ ret' = None
        /\ trace' = r.trace
        /\ UNCHANGED <<config, replay_memory, rng, added, files>>

\* coordinator.saveModelParams()
SaveModelParams ==
  \E failAt \in 0..(2 * num_agents) :
    LET r == saveModelParams(agents, failAt)
    IN  /\ lastOp' = "saveModelParams"
        /\ args' = [failAt |-> failAt]
        /\ err' = r.err
        /\ ret' = None
        /\ trace' = r.trace
        /\ files' = files \cup Written(r.trace)
        /\ UNCHANGED <<config, replay_memory, rng, added>>

\* ---- other users of the random module ---------------------------------------
\* Another ReplayBuffer is constructed: its __init__ calls random.seed(seed).
OtherBufferInit ==
  \E seed \in 0..MaxSeed :
    /\ rng' = random_seed(seed)
    /\ lastOp' = "other_init"
    /\ args' = <<seed>>
    /\ err' = "none"
    /\ ret' = None
    /\ trace' = <<>>
    /\ UNCHANGED <<config, replay_memory, added, files>>

\* Some other code draws a number from the random module.
OtherRandom ==
  /\ rng' = RngNext(rng)
  /\ lastOp' = "other_random"
  /\ args' = None
  /\ err' = "none"
  /\ ret' = None
  /\ trace' = <<>>
  /\ UNCHANGED <<config, replay_memory, added, files>>

Next ==
  \/ Add
  \/ Sample
  \/ Act
  \/ Reset
  \/ Step
  \/ Learn
  \/ OtherBufferInit
  \/ OtherRandom

Spec == Init /\ [][Next]_vars

\* Saving reads the agents and writes files only, and no other method reads or
\* writes the files, so it is checked in runs of the coordinator's methods
\* that leave the buffer alone.
NextSave ==
  \/ SaveModelParams
  \/ Act
  \/ Reset
  \/ Learn

SpecSave == Init /\ [][NextSave]_vars

\* ---- properties ---------------------------------------------------------------
\* The transition added by the m-th add call.
ExperienceAt(m) ==
  experience(Obs("state", m), Obs("action", m), Obs("reward", m),
             Obs("next_state", m), Obs("done", m))

\* Row j of a batch, and the row a stored experience turns into.
BatchRow(b, j) ==
  <<b.states[j], b.actions[j], b.rewards[j], b.next_states[j], b.dones[j]>>
StoredRow(e) ==
  <<e.state, e.action, e.reward, e.next_state, DoneToFloat(e.done)>>

\* b holds exactly batch_size rows, each the row of a stored transition, no
\* buffer position being used twice.
ValidBatch(b) ==
  /\ \A c \in DOMAIN b : Len(b[c]) = batch_size
  /\ \E f \in [1..batch_size -> 1..Len(replay_memory)] :
       /\ \A j \in 1..batch_size : BatchRow(b, j) = StoredRow(replay_memory[f[j]])
       /\ \A i, j \in 1..batch_size : i # j => f[i] # f[j]

\* The last call was a step call given five lists of length num_agents in
\* which no agent's learn raised.
ProperStep ==
  /\ lastOp = "step"
  /\ \A f \in StepFields : Len(args.in[f]) = num_agents
  /\ args.failAt = 0

\* The calls a step made after its insertions.
AfterAdds == SubSeq(trace, Len(Calls(trace, "add")) + 1, Len(trace))

\* The calls after the insertions are num_agents rounds of: one sample, one
\* learn with the batch just drawn, one agent.learn per agent with that batch.
RoundsOfSampleThenLearn ==
  LET k == num_agents
      t == AfterAdds
  IN  /\ Len(t) = k * (k + 2)
      /\ \A it \in 0..(k - 1) :
           LET base == it * (k + 2)
           IN  /\ t[base + 1].op = "sample"
               /\ t[base + 1].err = "none"
               /\ t[base + 2].op = "learn"
               /\ t[base + 2].experiences = t[base + 1].batch
               /\ \A a \in 1..k :
                    /\ t[base + 2 + a].op = "agent.learn"
                    /\ t[base + 2 + a].agent = agents[a]
                    /\ t[base + 2 + a].experiences = t[base + 1].batch

\* The configurations in which a sample made by step cannot fail.
SampleGuarded == batch_size >= 1 /\ batch_size <= minsamples_before_train + 1

\* C1: the number of stored transitions never exceeds buffer_size.
C1_CapacityInvariant == len(replay_memory) <= buffer_size

C1_Witness ==
  /\ buffer_size > 0
  /\ added > buffer_size
  /\ len(replay_memory) = buffer_size

\* C2: after n add calls on a buffer of capacity c the buffer holds exactly
\* the last min(n, c) added transitions, oldest first.
C2_LastAddedInOrder ==
  /\ len(replay_memory) = Min(added, buffer_size)
  /\ \A p \in 1..Len(replay_memory) :
       replay_memory[p] = ExperienceAt(added - Len(replay_memory) + p)

C2_Witness ==
  /\ buffer_size >= 2
  /\ added >= buffer_size + 2
  /\ replay_memory[1] = ExperienceAt(added - buffer_size + 1)

\* C3 as stated: every sample call made with len(buffer) >= batch_size
\* returns batch_size rows of distinct stored transitions.
C3_AsStated ==
  \A j \in 1..Len(trace) :
    (trace[j].op = "sample" /\ len(replay_memory) >= batch_size)
      => (trace[j].err = "none" /\ ValidBatch(trace[j].batch))

\* C3: every sample call made with batch_size >= 1 and len(buffer) >=
\* batch_size returns batch_size rows, each of a stored transition, no buffer
\* position twice.
C3_SampleValid ==
  \A j \in 1..Len(trace) :
    (trace[j].op = "sample" /\ batch_size >= 1
       /\ len(replay_memory) >= batch_size)
      => (trace[j].err = "none" /\ ValidBatch(trace[j].batch))

C3_Witness ==
  /\ lastOp = "sample"
  /\ err = "none"
  /\ batch_size >= 2
  /\ len(replay_memory) > batch_size
  /\ ValidBatch(ret)

C6_AsStated ==
  lastOp = "step" => (Samples(trace) # <<>> => len(replay_memory) >= batch_size)

\* C6: in every configuration with minsamples_before_train >= batch_size - 1,
\* step never calls sample while the buffer holds fewer than batch_size
\* transitions.
C6_SampleGuardedByThreshold ==
  (lastOp = "step" /\ minsamples_before_train + 1 >= batch_size)
    => (Samples(trace) # <<>> => len(replay_memory) >= batch_size)

C6_Witness ==
  /\ lastOp = "step"
  /\ minsamples_before_train + 1 = batch_size
  /\ batch_size >= 2
  /\ Samples(trace) # <<>>
  /\ len(replay_memory) = batch_size

\* C7: a sample call made while len(buffer) < batch_size raises and returns
\* no batch, and leaves the buffer's contents as they were.
C7_ShortBufferSampleFails ==
  [][/\ \A j \in 1..Len(trace') :
          (trace'[j].op = "sample" /\ len(replay_memory') < batch_size')
            => (trace'[j].err = "ValueError" /\ trace'[j].batch = None)
     /\ (lastOp' = "sample" /\ len(replay_memory) < batch_size)
          => /\ err' = "ValueError"
             /\ ret' = None
             /\ replay_memory' = replay_memory]_vars

C7_Witness ==
  /\ lastOp = "sample"
  /\ err = "ValueError"
  /\ len(replay_memory) >= 1
  /\ len(replay_memory) < batch_size

\* C8: what the buffer's next sample call returns does not change when other
\* code constructs a ReplayBuffer or draws from the random module.
C8_PrivateRandomSource ==
  [][(OtherBufferInit \/ OtherRandom) =>
       /\ sample(replay_memory', batch_size, rng').err
            = sample(replay_memory, batch_size, rng).err
       /\ sample(replay_memory', batch_size, rng').batch
            = sample(replay_memory, batch_size, rng).batch]_vars

\* C9: act on a states list of length num_agents calls agent i's act exactly
\* once, with (states[i], add_noise), and returns the agents' actions in
\* agent order.
C9_ActIndexAligned ==
  (lastOp = "act" /\ Len(args.states) = num_agents) =>
    /\ err = "none"
    /\ Len(trace) = num_agents
    /\ Len(ret) = num_agents
    /\ \A i \in 1..num_agents :
         /\ trace[i].op = "agent.act"
         /\ trace[i].agent = agents[i]
         /\ trace[i].state = args.states[i]
         /\ trace[i].add_noise = args.add_noise
         /\ ret[i] = trace[i].action

C9_Witness ==
  /\ lastOp = "act"
  /\ num_agents = 2
  /\ Len(args.states) = 2
  /\ ~args.add_noise
  /\ Len(ret) = 2

\* C10: act or step called with a list whose length differs from num_agents
\* raises an error.
C10_MismatchedLengthsRejected ==
  /\ (lastOp = "act" /\ Len(args.states) # num_agents) => err # "none"
  /\ (lastOp = "step" /\ \E f \in StepFields : Len(args.in[f]) # num_agents)
       => err # "none"

\* The buffer after the add calls of a trace, in order, on mem.
RECURSIVE ApplyAdds(_, _, _)
ApplyAdds(mem, tr, maxlen) ==
  IF Len(tr) = 0 THEN mem
  ELSE ApplyAdds(IF Head(tr).op = "add"
                 THEN deque_append(mem, Head(tr).experience, maxlen)
                 ELSE mem,
                 Tail(tr), maxlen)

\* C11: a step call given five lists of length num_agents first appends the
\* transitions (states[i], actions[i], rewards[i], next_states[i], dones[i])
\* for increasing i to the buffer, and only then tests the threshold and
\* samples; the buffer length after the insertions is
\* min(buffer_size, previous length + num_agents).
C11_StepAppendsInOrder ==
  [][(lastOp' = "step" /\ \A f \in StepFields : Len(args'.in[f]) = num_agents)
       => /\ Len(trace') >= num_agents
          /\ \A i \in 1..num_agents :
               /\ trace'[i].op = "add"
               /\ trace'[i].experience =
                    experience(args'.in.states[i], args'.in.actions[i],
                               args'.in.rewards[i], args'.in.next_states[i],
                               args'.in.dones[i])
          /\ \A j \in (num_agents + 1)..Len(trace') : trace'[j].op # "add"
          /\ replay_memory' = ApplyAdds(replay_memory, trace', buffer_size)
          /\ len(replay_memory') =
               Min(buffer_size, len(replay_memory) + num_agents)
          /\ (Samples(trace') # <<>>)
               <=> (len(replay_memory') > minsamples_before_train)]_vars

C11_Witness ==
  /\ lastOp = "step"
  /\ \A f \in StepFields : Len(args.in[f]) = num_agents
  /\ num_agents = 2
  /\ buffer_size = 3
  /\ added = 4
  /\ len(replay_memory) = 3
  /\ Samples(trace) # <<>>
  /\ trace[2].experience = replay_memory[3]

\* C12: once the buffer length exceeds minsamples_before_train it exceeds it
\* after every later call.
C12_NoReturnToWarmup ==
  [][len(replay_memory) > minsamples_before_train
       => len(replay_memory') > minsamples_before_train']_vars

C12_Witness ==
  /\ lastOp = "step"
  /\ Samples(trace) # <<>>
  /\ num_agents = 1
  /\ added > buffer_size
  /\ added >= minsamples_before_train + 3

\* C13: act and reset leave the buffer, num_agents, batch_size, gamma,
\* minsamples_before_train and the agent list as they were and make no add,
\* sample or learn call; reset calls every agent's reset exactly once.
C13_ActResetFrame ==
  [][lastOp' \in {"act", "reset"}
       => /\ replay_memory' = replay_memory
          /\ num_agents' = num_agents
          /\ batch_size' = batch_size
          /\ gamma' = gamma
          /\ minsamples_before_train' = minsamples_before_train
          /\ agents' = agents
          /\ \A j \in 1..Len(trace') :
               trace'[j].op \notin {"add", "sample", "learn", "agent.learn"}
          /\ lastOp' = "reset"
               => /\ Len(trace') = num_agents
                  /\ \A i \in 1..num_agents :
                       /\ trace'[i].op = "agent.reset"
                       /\ trace'[i].agent = agents[i]]_vars

C13_Witness ==
  /\ lastOp = "reset"
  /\ num_agents = 2
  /\ Len(trace) = 2
  /\ len(replay_memory) >= 2

\* The batch of the last sample call before position j of a trace.
LastBatchBefore(tr, j) ==
  LET before == {i \in 1..(j - 1) : tr[i].op = "sample"}
  IN  tr[CHOOSE i \in before : \A n \in before : n <= i].batch

\* C14: in a step call every learn and every agent.learn receives the batch
\* of the sample call before it and the coordinator's gamma; a direct learn
\* call hands its two arguments to the agents in turn, to every agent if none
\* raises, and leaves the buffer as it was.
C14_LearnInputsPassedThrough ==
  [][/\ lastOp' = "step"
          => \A j \in 1..Len(trace') :
               trace'[j].op \in {"learn", "agent.learn"}
                 => /\ trace'[j].gamma = gamma'
                    /\ trace'[j].experiences = LastBatchBefore(trace', j)
     /\ lastOp' = "learn"
          => /\ replay_memory' = replay_memory
             /\ added' = added
             /\ err' = "none" => Len(trace') = num_agents
             /\ \A j \in 1..Len(trace') :
                  /\ trace'[j].op = "agent.learn"
                  /\ trace'[j].agent = agents[j]
                  /\ trace'[j].experiences = args'.experiences
                  /\ trace'[j].gamma = args'.gamma]_vars

C14_Witness ==
  /\ lastOp = "learn"
  /\ err = "none"
  /\ num_agents = 2
  /\ args.gamma = 50
  /\ Len(trace) = 2
  /\ len(replay_memory) >= 1

\* The j-th file of the order actor_0, critic_0, actor_1, critic_1, ...
FileInOrder(j) ==
  <<IF j % 2 = 1 THEN "actor_agent" ELSE "critic_agent", (j - 1) \div 2>>

\* C15: saveModelParams writes actor_0, critic_0, actor_1, critic_1, ... in
\* that order under pairwise distinct names, two files per agent; a failed
\* write ends the call with that error, no file is tried twice or after the
\* failure, and no written file is ever removed, so the written files are
\* always a prefix of the order.
C15_SaveOrderAndPartialWrites ==
  [][lastOp' = "saveModelParams"
       => /\ Len(trace') <= 2 * num_agents
          /\ \A j \in 1..Len(trace') :
               /\ trace'[j].op = "torch.save"
               /\ trace'[j].file = FileInOrder(j)
               /\ j < Len(trace') => trace'[j].err = "none"
          /\ \A i, j \in 1..Len(trace') :
               i # j => trace'[i].file # trace'[j].file
          /\ err' = "none"
               => /\ Len(trace') = 2 * num_agents
                  /\ trace'[Len(trace')].err = "none"
          /\ err' # "none"
               => /\ Len(trace') = args'.failAt
                  /\ trace'[Len(trace')].err = err'
          /\ files \subseteq files'
          /\ files' = files \cup
               {FileInOrder(j) :
                  j \in 1..(IF err' = "none" THEN Len(trace')
                            ELSE Len(trace') - 1)}
          /\ files' = {FileInOrder(j) : j \in 1..Cardinality(files')}]_vars

C15_Witness ==
  /\ lastOp = "saveModelParams"
  /\ err = "OSError"
  /\ num_agents = 2
  /\ Len(trace) = 3
  /\ files = {FileInOrder(1), FileInOrder(2)}

\* C16: with minsamples_before_train >= buffer_size no step call makes a
\* sample or learn call, however many transitions have been added.
C16_ThresholdAtCapacityNeverLearns ==
  (lastOp = "step" /\ minsamples_before_train >= buffer_size)
    => \A j \in 1..Len(trace) :
         trace[j].op \notin {"sample", "learn", "agent.learn"}

C16_Witness ==
  /\ lastOp = "step"
  /\ err = "none"
  /\ buffer_size >= 1
  /\ minsamples_before_train >= buffer_size
  /\ added > minsamples_before_train
  /\ len(replay_memory) = buffer_size

\* C17: after a step call that raises, the buffer holds the transitions the
\* call appended before it raised, evictions included: as many as the
\* shortest input list if an index failed, num_agents if sample or an agent's
\* learn failed; the agent.learn calls made before a failing one stay made.
C17_StepNotAtomicOnFailure ==
  [][(lastOp' = "step" /\ err' # "none")
       => /\ replay_memory' = ApplyAdds(replay_memory, trace', buffer_size)
          /\ added' = added + Len(Calls(trace', "add"))
          /\ err' = "IndexError"
               => /\ \E f \in StepFields :
                       Len(Calls(trace', "add")) = Len(args'.in[f])
                  /\ \A f \in StepFields :
                       Len(Calls(trace', "add")) <= Len(args'.in[f])
                  /\ Len(trace') = Len(Calls(trace', "add"))
          /\ err' \in {"ValueError", "AgentError"}
               => /\ Len(Calls(trace', "add")) = num_agents
                  /\ len(replay_memory') =
                       Min(buffer_size, len(replay_memory) + num_agents)
          /\ err' = "AgentError"
               => Len(Calls(trace', "agent.learn")) = args'.failAt]_vars

C17_Witness ==
  /\ lastOp = "step"
  /\ err = "AgentError"
  /\ Len(Calls(trace, "learn")) = 2
  /\ buffer_size >= 1
  /\ added > buffer_size
  /\ replay_memory[len(replay_memory)] = trace[2].experience

\* b holds bs rows, each the row of a transition stored in mem, no position
\* of mem being used twice.
ValidBatchIn(b, mem, bs) ==
  /\ \A c \in DOMAIN b : Len(b[c]) = bs
  /\ \E f \in [1..bs -> 1..Len(mem)] :
       /\ \A j \in 1..bs : BatchRow(b, j) = StoredRow(mem[f[j]])
       /\ \A i, j \in 1..bs : i # j => f[i] # f[j]

\* C18: a successful sample call leaves the stored transitions, their order
\* and their number as they were; the samples of one step all draw from the
\* buffer as the insertions left it, so none of them fails after an earlier
\* one succeeded.
C18_SampleReadOnly ==
  [][/\ (lastOp' = "sample" /\ err' = "none")
          => /\ replay_memory' = replay_memory
             /\ added' = added
     /\ lastOp' = "step"
          => /\ replay_memory' = ApplyAdds(replay_memory, trace', buffer_size)
             /\ \A j \in 1..Len(trace') :
                  trace'[j].op = "sample"
                    => IF trace'[j].err = "none"
                       THEN ValidBatchIn(trace'[j].batch, replay_memory',
                                         batch_size')
                       ELSE \A i \in 1..(j - 1) : trace'[i].op # "sample"]_vars

\* Two batches of one step share a transition.
C18_Witness ==
  /\ ProperStep
  /\ err = "none"
  /\ num_agents = 2
  /\ Len(Batches(trace)) = 2
  /\ \E i, j \in 1..batch_size :
       BatchRow(Batches(trace)[1], i) = BatchRow(Batches(trace)[2], j)
====
